---- MODULE Spec2Model ----
(***************************************************************************)
(* Model of src/datasets/fp2mol_dataset.py of DiffMS:                      *)
(*   - the per-molecule feature extraction of FP2MolDataset.process()      *)
(*     (SpecMol),                                                          *)
(*   - the loop of FP2MolDataset.process() over one split file (Spec),     *)
(*   - the constructors FP2MolDataset.__init__ / FP2MolDataModule.__init__ *)
(*     over the processed files (SpecStage),                               *)
(*   - the statistics cache of FP2Mol_infos.__init__ (SpecInfos).          *)
(* Python indices are 0-based and kept 0-based in the data (atom indices,  *)
(* idx, class numbers); TLA+ sequences are 1-based, so element k of a      *)
(* Python list is element k+1 of the sequence that models it.              *)
(***************************************************************************)
EXTENDS Integers, Sequences, FiniteSets, TLC

VARIABLES
    m_mol, m_out,                                  \* SpecMol
    inchi_list, filter_dataset, pre_filter, pre_transform, file_idx,
    disk, pc, i, data_list, smiles_kept,           \* Spec: the program's state
    visited, pf_calls, pt_calls, disk0,            \* Spec: observation of one call
    s_csv, s_disk, s_last,                         \* SpecStage
    files, last, written_ever                      \* SpecInfos

vars == <<m_mol, m_out, inchi_list, filter_dataset, pre_filter, pre_transform,
          file_idx, disk, pc, i, data_list, smiles_kept, visited, pf_calls,
          pt_calls, disk0, s_csv, s_disk, s_last, files, last, written_ever>>

None == "None"

(***************************************************************************)
(* Bounds of the model.                                                    *)
(***************************************************************************)
MaxAtoms == 3
MaxBonds == 2
MaxRows == 2
MaxSplit == 2

(***************************************************************************)
(* Module-level tables.                                                    *)
(***************************************************************************)
atom_decoder == <<"C", "O", "P", "N", "S", "Cl", "F", "H">>

\* types = {atom: i for i, atom in enumerate(self.atom_decoder)}
HasType(sym) == \E k \in 1..Len(atom_decoder) : atom_decoder[k] = sym
types(sym) == (CHOOSE k \in 1..Len(atom_decoder) : atom_decoder[k] = sym) - 1

\* bonds = {BT.SINGLE: 0, BT.DOUBLE: 1, BT.TRIPLE: 2, BT.AROMATIC: 3}
BondKeys == <<"SINGLE", "DOUBLE", "TRIPLE", "AROMATIC">>
HasBond(t) == \E k \in 1..Len(BondKeys) : BondKeys[k] = t
bonds(t) == (CHOOSE k \in 1..Len(BondKeys) : BondKeys[k] = t) - 1

\* An element and a bond type of RDKit that the two tables do not hold.
AllSymbols == atom_decoder \o <<"Si">>
AllBondTypes == BondKeys \o <<"DATIVE">>

(***************************************************************************)
(* Tensor helpers.                                                         *)
(***************************************************************************)
\* F.one_hot(v, num_classes)[k]: position v (0-based) set, the others clear.
\* (faulty variant: the class number taken as a 1-based position)
one_hot_mut(v, num_classes) == [k \in 1..num_classes |-> IF k = v THEN 1 ELSE 0]
one_hot(v, num_classes) == [k \in 1..num_classes |-> IF k = v + 1 THEN 1 ELSE 0]

\* tensor.argsort(): the positions of the keys in ascending order of key.
\* Ties are broken by position; the keys sorted here are pairwise distinct
\* (an RDKit molecule has no self-loop and at most one bond per atom pair).
Rank(keys, j) ==
    Cardinality({k \in 1..Len(keys) :
                    keys[k] < keys[j] \/ (keys[k] = keys[j] /\ k < j)})
argsort(keys) ==
    [k \in 1..Len(keys) |-> CHOOSE j \in 1..Len(keys) : Rank(keys, j) = k - 1]

\* t[perm] (and t[:, perm] on each of the two rows of edge_index)
Take(t, perm) == [k \in 1..Len(perm) |-> t[perm[k]]]

(***************************************************************************)
(* The body of the try block of process(), lines 137-170, for one row.     *)
(* A row of the CSV stands for the InChI string together with what the     *)
(* chemistry toolkit answers for it: whether it parses, the atoms and      *)
(* bonds of the molecule in RDKit's enumeration order, whether a later     *)
(* toolkit call raises, and (for the branches after line 170) the outcome  *)
(* of the rebuild and of the caller's pre_filter.                          *)
(***************************************************************************)
\* for atom in mol.GetAtoms(): type_idx.append(types[atom.GetSymbol()])
RECURSIVE AtomLoop(_, _)
AtomLoop(atoms, type_idx) ==
    IF atoms = <<>> THEN [ok |-> TRUE, type_idx |-> type_idx]
    ELSE IF ~HasType(Head(atoms)) THEN [ok |-> FALSE, type_idx |-> type_idx]
    ELSE AtomLoop(Tail(atoms), Append(type_idx, types(Head(atoms))))

\* for bond in mol.GetBonds(): row += [start, end]; col += [end, start];
\*     edge_type += 2 * [bonds[bond.GetBondType()] + 1]
BondStep(acc, bond) ==
    [ok |-> TRUE,
     row |-> acc.row \o <<bond.b, bond.e>>,
     col |-> acc.col \o <<bond.e, bond.b>>,
     edge_type |-> acc.edge_type \o <<bonds(bond.t) + 1, bonds(bond.t) + 1>>]

RECURSIVE BondLoop(_, _)
BondLoop(bs, acc) ==
    IF bs = <<>> THEN acc
    ELSE IF ~HasBond(Head(bs).t) THEN [acc EXCEPT !.ok = FALSE]
    ELSE BondLoop(Tail(bs), BondStep(acc, Head(bs)))

\* perm = (edge_index[0] * N + edge_index[1]).argsort()
SortKeys(row, col, N) == [k \in 1..Len(row) |-> row[k] * N + col[k]]

\* Chem.MolToInchi(mol): an identifier of the molecule that does not depend
\* on the order in which its bonds are enumerated.
MolToInchi(r) ==
    [atoms |-> r.atoms,
     bonds |-> {<<{r.bonds[k].b, r.bonds[k].e}, r.bonds[k].t>> : k \in 1..Len(r.bonds)}]

\* edge_attr = F.one_hot(edge_type, num_classes=len(bonds) + 1)[perm]
\* (faulty variant: edge_attr left in enumeration order)
EdgeAttr_mut(edge_type, perm) ==
    [k \in 1..Len(edge_type) |-> one_hot(edge_type[k], Len(BondKeys) + 1)]
EdgeAttr(edge_type, perm) ==
    Take([k \in 1..Len(edge_type) |-> one_hot(edge_type[k], Len(BondKeys) + 1)], perm)

\* x = F.one_hot(torch.tensor(type_idx), num_classes=len(types))
NodeX(type_idx) ==
    [k \in 1..Len(type_idx) |-> one_hot(type_idx[k], Len(atom_decoder))]

\* Lines 137-170: "exc" when an exception leaves the try block, "skip" at
\* the continue of line 155, "data" with the Data object of line 170. The
\* fingerprint y is RDKit's function of mol alone and is not a field of the
\* record here; a toolkit call of lines 157-168 that raises is r.raises.
\* transformed tells whether the caller's pre_transform was applied.
Featurize(r, idx) ==
    IF ~r.parse THEN [kind |-> "exc"]
    ELSE
    LET N == Len(r.atoms)
        a == AtomLoop(r.atoms, <<>>)
    IN  IF ~a.ok THEN [kind |-> "exc"]
        ELSE
        LET e == BondLoop(r.bonds, [ok |-> TRUE, row |-> <<>>, col |-> <<>>,
                                    edge_type |-> <<>>])
        IN  IF ~e.ok THEN [kind |-> "exc"]
            ELSE IF Len(e.row) = 0 THEN [kind |-> "skip"]
            ELSE IF r.raises THEN [kind |-> "exc"]
            ELSE
            LET perm == argsort(SortKeys(e.row, e.col, N))
            IN  [kind |-> "data",
                 data |-> [x |-> NodeX(a.type_idx),
                           edge_index |-> <<Take(e.row, perm), Take(e.col, perm)>>,
                           edge_attr |-> EdgeAttr(e.edge_type, perm),
                           idx |-> idx,
                           inchi |-> MolToInchi(r),
                           transformed |-> FALSE]]

\* What the rebuild of lines 174-185 answers for a row: which call raises
\* ("none", "build", "AtomValenceException", "KekulizeException", "other"),
\* whether mol2smiles gives a SMILES, and the number of fragments.
GoodRebuild == [raises |-> "none", smiles |-> TRUE, nfrags |-> 1]

(***************************************************************************)
(* Inputs of SpecMol: every molecule of at most MaxAtoms atoms and         *)
(* MaxBonds bonds, the bonds in every enumeration order and orientation.   *)
(***************************************************************************)
AtomSeqs(N) ==
    {[k \in 1..N |-> AllSymbols[((o + k * s) % Len(AllSymbols)) + 1]] :
        o \in 0..(Len(AllSymbols) - 1), s \in 0..1}

RECURSIVE BondSeqs(_, _)
\* the sequences of n bonds over N atoms, no self-loop, no atom pair twice
BondSeqs(N, n) ==
    IF n = 0 THEN {<<>>}
    ELSE {Append(bs, [b |-> u, e |-> v, t |-> None]) :
            bs \in BondSeqs(N, n - 1), u \in 0..(N - 1), v \in 0..(N - 1)}

WellFormed(bs) ==
    /\ \A k \in 1..Len(bs) : bs[k].b # bs[k].e
    /\ \A k, l \in 1..Len(bs) :
          k # l => {bs[k].b, bs[k].e} # {bs[l].b, bs[l].e}

Typed(bs, o, s) ==
    [k \in 1..Len(bs) |->
        [bs[k] EXCEPT !.t = AllBondTypes[((o + k * s) % Len(AllBondTypes)) + 1]]]

Molecule(as, bs, o, s) ==
    [parse |-> TRUE, atoms |-> as, bonds |-> Typed(bs, o, s), raises |-> FALSE,
     rebuild |-> GoodRebuild, keep |-> TRUE]

(***************************************************************************)
(* Values of the variables a specification does not use.                   *)
(***************************************************************************)
NoOut == [kind |-> "none"]
NoFile == [exists |-> FALSE, origin |-> "none", records |-> <<>>]
ProcessedNames == <<"train.pt", "val.pt", "test.pt">>

MolIdle == m_mol = NoOut /\ m_out = NoOut
ProcIdle ==
    /\ inchi_list = <<>> /\ filter_dataset = FALSE /\ pre_filter = None
    /\ pre_transform = None /\ file_idx = 0
    /\ disk = [n \in {} |-> NoFile] /\ pc = "idle" /\ i = 0
    /\ data_list = <<>> /\ smiles_kept = <<>> /\ visited = <<>>
    /\ pf_calls = 0 /\ pt_calls = 0 /\ disk0 = [n \in {} |-> NoFile]
StageIdle == s_csv = <<>> /\ s_disk = <<>> /\ s_last = NoOut
InfosIdle == files = <<>> /\ last = NoOut /\ written_ever = {}

procVars == <<inchi_list, filter_dataset, pre_filter, pre_transform, file_idx,
              disk, pc, i, data_list, smiles_kept, visited, pf_calls, pt_calls,
              disk0>>
stageVars == <<s_csv, s_disk, s_last>>
infosVars == <<files, last, written_ever>>

(***************************************************************************)
(* SpecMol: the feature extraction applied to one molecule.                *)
(***************************************************************************)
InitMol ==
    /\ \E N \in 1..MaxAtoms, n \in 0..MaxBonds :
        \E as \in AtomSeqs(N), bs \in BondSeqs(N, n),
           o \in 0..(Len(AllBondTypes) - 1), s \in 0..2 :
            /\ WellFormed(bs)
            /\ m_mol = Molecule(as, bs, o, s)
    /\ m_out = NoOut
    /\ ProcIdle /\ StageIdle /\ InfosIdle

Convert ==
    /\ m_out = NoOut
    /\ m_out' = Featurize(m_mol, 0)
    /\ UNCHANGED <<m_mol, procVars, stageVars, infosVars>>

NextMol == Convert

SpecMol == InitMol /\ [][NextMol]_vars

(***************************************************************************)
(* The rest of the loop body of process(), lines 172-201, and the loop.    *)
(* acc holds what the iterations accumulate: data_list, smiles_kept, the   *)
(* number of calls made to the caller's pre_filter and pre_transform, and  *)
(* whether an exception left the loop body.                                *)
(***************************************************************************)
\* except Exception as e: print(e)   -- the exception is swallowed
\* (faulty variant: the exception leaves the loop)
except_Exception_mut(acc) == [acc EXCEPT !.raised = TRUE]
except_Exception(acc) == acc

\* if len(mol_frags) == 1
\* (faulty variant: any number of fragments accepted)
FragsKept_mut(nfrags) == nfrags >= 1
FragsKept(nfrags) == nfrags = 1

\* Data(..., idx=i, ...) with i from enumerate(inchi_list)
\* (faulty variant: the position in the output)
DataIdx_mut(k, acc) == Len(acc.data_list)
DataIdx(k, acc) == k

\* self.pre_transform(data): a transform of the caller; it returns the
\* record it was given, marked as transformed.
ApplyPreTransform(data) == [data EXCEPT !.transformed = TRUE]

\* mol2smiles(mol) of the rebuilt molecule
RebuiltSmiles(data) == <<"smiles", data.inchi>>

\* Lines 174-193: the branch taken when self.filter_dataset is true.
Rebuild(r, data, acc) ==
    IF r.rebuild.raises = "build" THEN except_Exception(acc)
    ELSE IF ~r.rebuild.smiles THEN acc
    ELSE IF r.rebuild.raises = "AtomValenceException" THEN acc
    ELSE IF r.rebuild.raises = "KekulizeException" THEN acc
    ELSE IF r.rebuild.raises = "other" THEN except_Exception(acc)
    ELSE IF FragsKept(r.rebuild.nfrags)
         THEN [acc EXCEPT !.data_list = Append(@, data),
                          !.smiles_kept = Append(@, RebuiltSmiles(data))]
         ELSE acc

\* Lines 195-199: the branch taken when self.filter_dataset is false.
NoRebuild(r, data, pf, pt, acc) ==
    IF pf # None /\ ~r.keep THEN [acc EXCEPT !.pf_calls = @ + 1]
    ELSE
    LET a1 == IF pf # None THEN [acc EXCEPT !.pf_calls = @ + 1] ELSE acc
        a2 == IF pt # None THEN [a1 EXCEPT !.pt_calls = @ + 1] ELSE a1
        d  == IF pt # None THEN ApplyPreTransform(data) ELSE data
    IN  [a2 EXCEPT !.data_list = Append(@, d)]

\* One iteration of "for i, inchi in enumerate(inchi_list)", lines 135-201.
LoopBody(r, k, f, pf, pt, acc) ==
    LET c == Featurize(r, DataIdx(k, acc))
    IN  IF c.kind = "exc" THEN except_Exception(acc)
        ELSE IF c.kind = "skip" THEN acc
        ELSE IF f THEN Rebuild(r, c.data, acc)
        ELSE NoRebuild(r, c.data, pf, pt, acc)

EmptyAcc ==
    [data_list |-> <<>>, smiles_kept |-> <<>>, pf_calls |-> 0, pt_calls |-> 0,
     raised |-> FALSE]

\* The whole loop over rows, from iteration k on.
RECURSIVE RunLoop(_, _, _, _, _, _)
RunLoop(rows, k, f, pf, pt, acc) ==
    IF k >= Len(rows) \/ acc.raised THEN acc
    ELSE RunLoop(rows, k + 1, f, pf, pt, LoopBody(rows[k + 1], k, f, pf, pt, acc))

\* os.path.exists(self.processed_paths[...]) on the processed directory d
\* (faulty variant: the file is never found)
PathExists_mut(d, name) == FALSE
PathExists(d, name) == d[name].exists

\* self.processed_paths[self.file_idx]
ProcessedPath(idx) == ProcessedNames[idx + 1]

\* torch.save(self.collate(data_list), path): the file holds the records of
\* data_list in their order.
collate(dl) == [exists |-> TRUE, origin |-> "process", records |-> dl]

\* A processed file that was on disk before the program ran.
OldFile == [exists |-> TRUE, origin |-> "old", records |-> <<>>]

(***************************************************************************)
(* Spec: FP2MolDataset.process() on one dataset object, called any number  *)
(* of times. inchi_list is the content of the split file of the object's   *)
(* file_idx, which every call reads anew.                                  *)
(***************************************************************************)
MolA == [atoms |-> <<"C", "O">>, bonds |-> <<[b |-> 0, e |-> 1, t |-> "SINGLE"]>>]
MolB ==
    [atoms |-> <<"N", "C", "S">>,
     bonds |-> <<[b |-> 2, e |-> 1, t |-> "DOUBLE"], [b |-> 1, e |-> 0, t |-> "AROMATIC"]>>]
MolNoBond == [atoms |-> <<"C">>, bonds |-> <<>>]
MolSi == [atoms |-> <<"C", "Si">>, bonds |-> <<[b |-> 0, e |-> 1, t |-> "SINGLE"]>>]
MolDative == [atoms |-> <<"N", "P">>, bonds |-> <<[b |-> 0, e |-> 1, t |-> "DATIVE"]>>]

Row(m, parse, raises, rebuild, keep) ==
    [parse |-> parse, atoms |-> m.atoms, bonds |-> m.bonds, raises |-> raises,
     rebuild |-> rebuild, keep |-> keep]

ProcRows ==
    { Row(MolA, FALSE, FALSE, GoodRebuild, TRUE),
      Row(MolSi, TRUE, FALSE, GoodRebuild, TRUE),
      Row(MolDative, TRUE, FALSE, GoodRebuild, TRUE),
      Row(MolB, TRUE, TRUE, GoodRebuild, TRUE),
      Row(MolNoBond, TRUE, FALSE, GoodRebuild, TRUE),
      Row(MolA, TRUE, FALSE, GoodRebuild, TRUE),
      Row(MolB, TRUE, FALSE, GoodRebuild, FALSE),
      Row(MolA, TRUE, FALSE, [raises |-> "none", smiles |-> TRUE, nfrags |-> 2], TRUE),
      Row(MolB, TRUE, FALSE, [raises |-> "none", smiles |-> FALSE, nfrags |-> 1], TRUE),
      Row(MolA, TRUE, FALSE,
          [raises |-> "AtomValenceException", smiles |-> TRUE, nfrags |-> 1], FALSE),
      Row(MolB, TRUE, FALSE,
          [raises |-> "KekulizeException", smiles |-> TRUE, nfrags |-> 1], TRUE),
      Row(MolA, TRUE, FALSE, [raises |-> "other", smiles |-> TRUE, nfrags |-> 1], TRUE),
      Row(MolB, TRUE, FALSE, [raises |-> "build", smiles |-> TRUE, nfrags |-> 1], TRUE) }

SeqsUpTo(S, n) == UNION {[1..m -> S] : m \in 0..n}

Init ==
    /\ inchi_list \in SeqsUpTo(ProcRows, MaxRows)
    /\ filter_dataset \in BOOLEAN
    /\ pre_filter \in {None, "given"}
    /\ pre_transform \in {None, "given"}
    /\ file_idx \in {0, 1}
    /\ \E tr \in {NoFile, OldFile}, va \in {NoFile, OldFile} :
          disk = [n \in {"train.pt", "val.pt", "test.pt"} |->
                    IF n = "train.pt" THEN tr ELSE IF n = "val.pt" THEN va ELSE NoFile]
    /\ disk0 = disk
    /\ pc = "call"
    /\ i = 0 /\ data_list = <<>> /\ smiles_kept = <<>> /\ visited = <<>>
    /\ pf_calls = 0 /\ pt_calls = 0
    /\ MolIdle /\ StageIdle /\ InfosIdle

\* Lines 123-133: the entry of process() and the test of line 131.
ProcessBegin ==
    /\ pc = "call"
    /\ disk0' = disk
    /\ i' = 0 /\ data_list' = <<>> /\ smiles_kept' = <<>> /\ visited' = <<>>
    /\ pf_calls' = 0 /\ pt_calls' = 0
    /\ pc' = IF PathExists(disk, ProcessedPath(file_idx)) THEN "done" ELSE "loop"
    /\ UNCHANGED <<inchi_list, filter_dataset, pre_filter, pre_transform, file_idx,
                   disk, m_mol, m_out, stageVars, infosVars>>

\* Lines 135-201: one iteration of the loop.
ProcessRow ==
    /\ pc = "loop"
    /\ i < Len(inchi_list)
    /\ \E a \in {LoopBody(inchi_list[i + 1], i, filter_dataset, pre_filter,
                            pre_transform,
                            [data_list |-> data_list, smiles_kept |-> smiles_kept,
                             pf_calls |-> pf_calls, pt_calls |-> pt_calls,
                             raised |-> FALSE])} :
           /\ data_list' = a.data_list
           /\ smiles_kept' = a.smiles_kept
           /\ pf_calls' = a.pf_calls
           /\ pt_calls' = a.pt_calls
           /\ pc' = IF a.raised THEN "raised" ELSE "loop"
    /\ visited' = Append(visited, i)
    /\ i' = i + 1
    /\ UNCHANGED <<inchi_list, filter_dataset, pre_filter, pre_transform, file_idx,
                   disk, disk0, m_mol, m_out, stageVars, infosVars>>

\* Line 203: the loop is over, the records are saved.
ProcessSave ==
    /\ pc = "loop"
    /\ i = Len(inchi_list)
    /\ disk' = [disk EXCEPT ![ProcessedPath(file_idx)] = collate(data_list)]
    /\ pc' = "done"
    /\ UNCHANGED <<inchi_list, filter_dataset, pre_filter, pre_transform, file_idx,
                   i, data_list, smiles_kept, visited, pf_calls, pt_calls, disk0,
                   m_mol, m_out, stageVars, infosVars>>

\* process() is called again on the same object.
ProcessAgain ==
    /\ pc = "done"
    /\ pc' = "call"
    /\ UNCHANGED <<inchi_list, filter_dataset, pre_filter, pre_transform, file_idx,
                   disk, i, data_list, smiles_kept, visited, pf_calls, pt_calls,
                   disk0, m_mol, m_out, stageVars, infosVars>>

Next == ProcessBegin \/ ProcessRow \/ ProcessSave \/ ProcessAgain

Spec == Init /\ [][Next]_vars

(***************************************************************************)
(* SpecStage: the constructors. FP2MolDataset.__init__ is one step: the    *)
(* stage test, super().__init__ (which runs process() unless every file of *)
(* processed_file_names is already there) and torch.load. s_csv holds the  *)
(* two split files, s_disk the processed directory, s_last what the last   *)
(* constructor call did: its arguments, the exception it raised, the file  *)
(* operations it made in order, and the records of each dataset it built.  *)
(***************************************************************************)
\* Lines 49-52. NoIndex stands for the ValueError of line 52.
NoIndex == 0 - 1
\* (faulty variant: 'val' given the index of 'train')
StageIndex_mut(stage) ==
    CASE stage = "train" -> 0 [] stage = "val" -> 0 [] stage = "test" -> 1
      [] OTHER -> NoIndex
StageIndex(stage) ==
    CASE stage = "train" -> 0 [] stage = "val" -> 1 [] stage = "test" -> 1
      [] OTHER -> NoIndex

\* process(), lines 122-203, as one step on the processed directory d.
ProcessCall(d, csv, idx, f) ==
    LET rd == <<<<"read_csv", idx>>>>
    IN  IF PathExists(d, ProcessedPath(idx))
        THEN [disk |-> d, io |-> rd]
        ELSE [disk |-> [d EXCEPT ![ProcessedPath(idx)] =
                          collate(RunLoop(csv[idx + 1], 0, f, None, None,
                                          EmptyAcc).data_list)],
              io |-> Append(rd, <<"save", ProcessedPath(idx)>>)]

\* FP2MolDataset.__init__, lines 37-55, with pre_transform and pre_filter
\* left at None as FP2MolDataModule leaves them.
NewDatasetCall(d, csv, stage, f) ==
    LET idx == StageIndex(stage)
    IN  IF idx = NoIndex
        THEN [err |-> "ValueError", disk |-> d, io |-> <<>>, data |-> <<>>]
        ELSE
        LET p == IF \A k \in 1..Len(ProcessedNames) : PathExists(d, ProcessedNames[k])
                 THEN [disk |-> d, io |-> <<>>]
                 ELSE ProcessCall(d, csv, idx, f)
        IN  [err |-> "none", disk |-> p.disk,
             io |-> Append(p.io, <<"load", ProcessedPath(idx)>>),
             data |-> p.disk[ProcessedPath(idx)].records]

StageRows ==
    { Row(MolA, TRUE, FALSE, GoodRebuild, TRUE),
      Row(MolB, TRUE, FALSE, [raises |-> "none", smiles |-> TRUE, nfrags |-> 2], TRUE) }

InitStage ==
    /\ s_csv \in SeqsUpTo(StageRows, MaxSplit) \X SeqsUpTo(StageRows, MaxSplit)
    /\ s_disk \in [{"train.pt", "val.pt", "test.pt"} -> {NoFile, OldFile}]
    /\ s_last = [op |-> "none", stage |-> None, filter |-> FALSE, err |-> "none",
                 io |-> <<>>, data |-> <<>>, train |-> <<>>, val |-> <<>>,
                 test |-> <<>>, before |-> s_disk]
    /\ MolIdle /\ ProcIdle /\ InfosIdle

\* FP2MolDataset(stage, root, filter_dataset)
NewDataset(stage, f) ==
    /\ \E r \in {NewDatasetCall(s_disk, s_csv, stage, f)} :
           /\ s_disk' = r.disk
           /\ s_last' = [op |-> "dataset", stage |-> stage, filter |-> f,
                         err |-> r.err, io |-> r.io, data |-> r.data,
                         train |-> <<>>, val |-> <<>>, test |-> <<>>,
                         before |-> s_disk]
    /\ UNCHANGED <<s_csv, m_mol, m_out, procVars, infosVars>>

\* FP2MolDataModule(cfg), lines 207-217: the datasets of 'train', 'val' and
\* 'test' are built in this order, the last two with stage='val'.
NewDataModule(f) ==
    /\ \E r1 \in {NewDatasetCall(s_disk, s_csv, "train", f)} :
       \E r2 \in {NewDatasetCall(r1.disk, s_csv, "val", f)} :
       \E r3 \in {NewDatasetCall(r2.disk, s_csv, "val", f)} :
           /\ s_disk' = r3.disk
           /\ s_last' = [op |-> "datamodule", stage |-> None, filter |-> f,
                         err |-> "none", io |-> r1.io \o r2.io \o r3.io,
                         data |-> <<>>, train |-> r1.data, val |-> r2.data,
                         test |-> r3.data, before |-> s_disk]
    /\ UNCHANGED <<s_csv, m_mol, m_out, procVars, infosVars>>

NextStage ==
    \/ \E stage \in {"train", "val", "test", "valid"}, f \in BOOLEAN : NewDataset(stage, f)
    \/ \E f \in BOOLEAN : NewDataModule(f)

SpecStage == InitStage /\ [][NextStage]_vars

(***************************************************************************)
(* SpecInfos: FP2Mol_infos.__init__ over the statistics files. A path is   *)
(* <<directory, file name>>; "own" is <root>/stats of the data module,     *)
(* "ext" another directory. A tensor is [dtype, val]; a file holds the     *)
(* text np.savetxt wrote, which np.loadtxt reads back as float64.          *)
(***************************************************************************)
StatKeys == {"n_nodes", "node_types", "edge_types", "valency_distribution"}

StatFile(k) ==
    CASE k = "n_nodes" -> "n_counts.txt"
      [] k = "node_types" -> "atom_types.txt"
      [] k = "edge_types" -> "edge_types.txt"
      [] k = "valency_distribution" -> "valencies.txt"

\* meta_files, lines 234-237
\* (faulty variant: the files written where meta_read may read them)
MetaFiles_mut(k) == <<"ext", StatFile(k)>>
MetaFiles(k) == <<"own", StatFile(k)>>

\* meta_read, lines 240-249
MetaRead(stats_dir, k) ==
    IF stats_dir # None
    THEN IF k \in {"node_types", "edge_types"}
         THEN <<stats_dir, StatFile(k)>>
         ELSE <<"own", StatFile(k)>>
    ELSE <<"own", StatFile(k)>>

NoneT == [dtype |-> "None", val |-> 0]
NoStat == [exists |-> FALSE, text |-> 0]
OldStat == [exists |-> TRUE, text |-> 0]

\* np.savetxt(path, t.numpy()) and torch.tensor(np.loadtxt(path))
savetxt(t) == [exists |-> TRUE, text |-> t.val]
loadtxt(f) == [dtype |-> "float64", val |-> f.text]

\* datamodule.node_counts() / node_types() / edge_counts() / valency_count():
\* the statistic of the corpus the data module holds (a file that was on disk
\* before the program ran holds 0, the statistic of some other corpus).
Computed(k) == [dtype |-> "torch", val |-> 1]

\* Lines 257-258: meta=None becomes a dict of None.
MetaDict(meta) == IF meta.given THEN meta.d ELSE [k \in StatKeys |-> NoneT]

\* Lines 261-264: the attributes after the load loop.
LoadStep(fs, stats_dir, md) ==
    [k \in StatKeys |->
        IF md[k] = NoneT /\ fs[MetaRead(stats_dir, k)].exists
        THEN loadtxt(fs[MetaRead(stats_dir, k)])
        ELSE NoneT]

\* The test of lines 268, 273, 278 and 282.
\* (faulty variant: a missing statistic is not computed)
NeedsRecompute_mut(recompute_statistics, attr) == recompute_statistics
NeedsRecompute(recompute_statistics, attr) == recompute_statistics \/ attr = NoneT

\* FP2Mol_infos.__init__, lines 221-286.
InfosCall(fs, stats_dir, recompute_statistics, meta) ==
    LET loaded == LoadStep(fs, stats_dir, MetaDict(meta))
        called == {k \in StatKeys : NeedsRecompute(recompute_statistics, loaded[k])}
    IN  [after_load |-> loaded,
         called |-> called,
         attrs |-> [k \in StatKeys |->
                      IF k \in called THEN Computed(k) ELSE loaded[k]],
         written |-> {MetaFiles(k) : k \in called},
         files |-> [p \in DOMAIN fs |->
                      IF \E k \in called : MetaFiles(k) = p
                      THEN savetxt(Computed(CHOOSE k \in called : MetaFiles(k) = p))
                      ELSE fs[p]]]

StatPaths == {"own", "ext"} \X {StatFile(k) : k \in StatKeys}

MetaGiven(G) ==
    [given |-> TRUE,
     d |-> [k \in StatKeys |-> IF k \in G THEN [dtype |-> "caller", val |-> 0 - 1]
                                          ELSE NoneT]]
MetaArgs ==
    {[given |-> FALSE, d |-> [k \in StatKeys |-> NoneT]]}
      \cup {MetaGiven(G) : G \in {{"n_nodes"}, {"node_types", "valency_distribution"}}}

InitInfos ==
    /\ files \in [StatPaths -> {NoStat, OldStat}]
    /\ files[<<"ext", "n_counts.txt">>] = NoStat
    /\ files[<<"ext", "valencies.txt">>] = NoStat
    /\ last = [op |-> "none", stats_dir |-> None, recompute |-> FALSE,
               meta |-> [given |-> FALSE, d |-> [k \in StatKeys |-> NoneT]],
               after_load |-> [k \in StatKeys |-> NoneT],
               attrs |-> [k \in StatKeys |-> NoneT],
               called |-> {}, written |-> {}, before |-> files, computed_before |-> {}]
    /\ written_ever = {}
    /\ MolIdle /\ ProcIdle /\ StageIdle

\* FP2Mol_infos(datamodule, cfg, recompute_statistics, meta); written_ever
\* records each <<statistic, cfg.dataset.stats_dir>> for which a construction
\* computed the statistic and wrote it.
NewInfos(stats_dir, recompute_statistics, meta) ==
    /\ \E r \in {InfosCall(files, stats_dir, recompute_statistics, meta)} :
           /\ files' = r.files
           /\ last' = [op |-> "infos", stats_dir |-> stats_dir,
                       recompute |-> recompute_statistics, meta |-> meta,
                       after_load |-> r.after_load, attrs |-> r.attrs,
                       called |-> r.called, written |-> r.written,
                       before |-> files, computed_before |-> written_ever]
           /\ written_ever' = written_ever \cup {<<k, stats_dir>> : k \in r.called}
    /\ UNCHANGED <<m_mol, m_out, procVars, stageVars>>

NextInfos ==
    \E stats_dir \in {None, "own", "ext"}, recompute_statistics \in BOOLEAN,
       meta \in MetaArgs :
        NewInfos(stats_dir, recompute_statistics, meta)

SpecInfos == InitInfos /\ [][NextInfos]_vars

(***************************************************************************)
(* Claims on the feature extraction (checked under SpecMol).               *)
(***************************************************************************)
\* The class of a bond type as the claims state it.
BondClass(t) ==
    CASE t = "SINGLE" -> 1 [] t = "DOUBLE" -> 2 [] t = "TRIPLE" -> 3
      [] t = "AROMATIC" -> 4
ClassVector(t) == [k \in 1..5 |-> IF k - 1 = BondClass(t) THEN 1 ELSE 0]

DirectedEdges(r) ==
    UNION {{<<r.bonds[k].b, r.bonds[k].e, r.bonds[k].t>>,
            <<r.bonds[k].e, r.bonds[k].b, r.bonds[k].t>>} : k \in 1..Len(r.bonds)}

EdgeTriples(d) ==
    {<<d.edge_index[1][k], d.edge_index[2][k], d.edge_attr[k]>> :
        k \in 1..Len(d.edge_index[1])}

\* The same molecule with its bonds enumerated in the opposite order and
\* each bond's begin and end atom exchanged.
Reenumerated(r) ==
    [r EXCEPT !.bonds =
        [k \in 1..Len(r.bonds) |->
            [b |-> r.bonds[Len(r.bonds) + 1 - k].e,
             e |-> r.bonds[Len(r.bonds) + 1 - k].b,
             t |-> r.bonds[Len(r.bonds) + 1 - k].t]]]

\* C1: in an emitted record each bond {u,v} contributes exactly the two
\* directed edges (u,v) and (v,u) with the bond's type, the columns of
\* edge_index are strictly ascending in source*N+target, each edge_attr row
\* sits at the position of its edge, and the record does not depend on the
\* order in which the bonds were enumerated.
C1_CanonicalEdges ==
    m_out.kind = "data" =>
        LET d == m_out.data
            N == Len(m_mol.atoms)
            E == Len(d.edge_index[1])
        IN  /\ Len(d.edge_index[2]) = E
            /\ Len(d.edge_attr) = E
            /\ E = 2 * Len(m_mol.bonds)
            /\ EdgeTriples(d) =
                  {<<tr[1], tr[2], ClassVector(tr[3])>> : tr \in DirectedEdges(m_mol)}
            /\ \A k \in 1..(E - 1) :
                  d.edge_index[1][k] * N + d.edge_index[2][k]
                    < d.edge_index[1][k + 1] * N + d.edge_index[2][k + 1]
            /\ Featurize(Reenumerated(m_mol), 0) = m_out

\* Two bonds of different types, enumerated against the canonical order.
C1_Witness ==
    /\ m_out.kind = "data"
    /\ Len(m_mol.bonds) = 2
    /\ m_mol.bonds[1].b > m_mol.bonds[1].e
    /\ m_mol.bonds[1].b > m_mol.bonds[2].b
    /\ m_mol.bonds[1].t # m_mol.bonds[2].t
    /\ m_out.data.edge_attr[1] # m_out.data.edge_attr[4]

IsOneHot(v, n) ==
    /\ Len(v) = n
    /\ \A k \in 1..n : v[k] \in {0, 1}
    /\ Cardinality({k \in 1..n : v[k] = 1}) = 1

BondTypeBetween(r, u, v) ==
    LET k == CHOOSE l \in 1..Len(r.bonds) : {r.bonds[l].b, r.bonds[l].e} = {u, v}
    IN  r.bonds[k].t

\* C7: every row of x is one-hot over the 8 atom types (set at the atom's
\* position in atom_decoder), every row of edge_attr is one-hot over 5
\* classes, set at single=1, double=2, triple=3, aromatic=4, never at 0.
C7_OneHot ==
    m_out.kind = "data" =>
        LET d == m_out.data IN
        /\ Len(d.x) = Len(m_mol.atoms)
        /\ \A a \in 1..Len(d.x) :
              /\ IsOneHot(d.x[a], 8)
              /\ \E p \in 1..8 : atom_decoder[p] = m_mol.atoms[a] /\ d.x[a][p] = 1
        /\ \A k \in 1..Len(d.edge_attr) :
              /\ IsOneHot(d.edge_attr[k], 5)
              /\ d.edge_attr[k][1] = 0
              /\ d.edge_attr[k][BondClass(BondTypeBetween(m_mol,
                      d.edge_index[1][k], d.edge_index[2][k])) + 1] = 1

C7_Witness ==
    /\ m_out.kind = "data"
    /\ \E a \in 1..Len(m_mol.atoms) : m_mol.atoms[a] = "H" /\ m_out.data.x[a][8] = 1
    /\ \E k \in 1..Len(m_mol.bonds) : m_mol.bonds[k].t = "AROMATIC"
    /\ \E k \in 1..Len(m_mol.bonds) : m_mol.bonds[k].t = "SINGLE"

(***************************************************************************)
(* Claims on process() (checked under Spec).                               *)
(***************************************************************************)
\* Row j (0-based) of the split file has a record in data_list.
InOutput(j) == \E k \in 1..Len(data_list) : data_list[k].idx = j

\* The row reaches line 170: a Data object is built for it.
Built(r) == Featurize(r, 0).kind = "data"

\* The rebuilt molecule has a SMILES and splits into exactly one fragment,
\* no call of the rebuild raising.
RebuildValid(r) ==
    r.rebuild.smiles /\ r.rebuild.raises = "none" /\ r.rebuild.nfrags = 1

\* C2: without filter_dataset a built record is dropped only by a pre_filter
\* that rejects it; with filter_dataset a record is in the output iff its
\* rebuild is valid, and pre_filter and pre_transform are never applied.
C2_FilterOptional ==
    /\ \A j \in 0..(i - 1) :
          LET r == inchi_list[j + 1] IN
          /\ (~filter_dataset /\ Built(r)) =>
                (InOutput(j) <=> (pre_filter = None \/ r.keep))
          /\ filter_dataset => (InOutput(j) <=> (Built(r) /\ RebuildValid(r)))
    /\ filter_dataset =>
          /\ pf_calls = 0 /\ pt_calls = 0
          /\ \A k \in 1..Len(data_list) : ~data_list[k].transformed

C2_Witness ==
    /\ pc = "done" /\ filter_dataset /\ pre_filter # None /\ pre_transform # None
    /\ Len(inchi_list) = 2 /\ i = 2
    /\ Built(inchi_list[1]) /\ ~inchi_list[1].keep /\ InOutput(0)
    /\ Built(inchi_list[2]) /\ inchi_list[2].rebuild.nfrags = 2 /\ ~InOutput(1)

\* C5: the loop visits the rows once each in order; a row gives at most one
\* record; the records keep the order of their rows; idx is the row's
\* position in the split file, so idx is strictly increasing.
C5_SinglePass ==
    /\ visited = [k \in 1..i |-> k - 1]
    /\ (pc = "done" /\ ~disk0[ProcessedPath(file_idx)].exists) => i = Len(inchi_list)
    /\ Len(data_list) <= i
    /\ \A k \in 1..Len(data_list) :
          /\ data_list[k].idx \in 0..(i - 1)
          /\ data_list[k].inchi = MolToInchi(inchi_list[data_list[k].idx + 1])
          /\ Built(inchi_list[data_list[k].idx + 1])
    /\ \A k \in 1..(Len(data_list) - 1) : data_list[k].idx < data_list[k + 1].idx

C5_Witness ==
    /\ pc = "done" /\ Len(inchi_list) = 2 /\ visited = <<0, 1>>
    /\ Len(data_list) = 1 /\ data_list[1].idx = 1
    /\ disk[ProcessedPath(file_idx)].records = data_list

\* A bad row as the claim lists them.
BadRow(r, f) ==
    \/ ~r.parse
    \/ \E a \in 1..Len(r.atoms) : r.atoms[a] \notin {atom_decoder[k] : k \in 1..8}
    \/ \E b \in 1..Len(r.bonds) :
          r.bonds[b].t \notin {"SINGLE", "DOUBLE", "TRIPLE", "AROMATIC"}
    \/ r.raises
    \/ (f /\ r.rebuild.raises \in {"build", "other"})
    \/ Len(r.bonds) = 0

StripIdx(dl) == [k \in 1..Len(dl) |-> [dl[k] EXCEPT !.idx = 0]]

StageFiles(n) ==
    IF n = 0
    THEN {<<"read_csv", 0>>, <<"save", "train.pt">>, <<"load", "train.pt">>}
    ELSE {<<"read_csv", 1>>, <<"save", "val.pt">>, <<"load", "val.pt">>}

IoSet(io) == {io[k] : k \in 1..Len(io)}

\* C4: 'train' works on split file 0 and train.pt, 'val' and 'test' on
\* split file 1 and val.pt; the data module's test dataset holds the
\* records of its val dataset; test.pt is never written; any other stage
\* raises ValueError with no file read or written.
C4_Stages ==
    /\ s_disk["test.pt"] = s_last.before["test.pt"]
    /\ <<"save", "test.pt">> \notin IoSet(s_last.io)
    /\ (s_last.op = "dataset" /\ s_last.stage = "train") =>
          /\ s_last.err = "none"
          /\ IoSet(s_last.io) \subseteq StageFiles(0)
          /\ s_last.data = s_disk["train.pt"].records
    /\ (s_last.op = "dataset" /\ s_last.stage \in {"val", "test"}) =>
          /\ s_last.err = "none"
          /\ IoSet(s_last.io) \subseteq StageFiles(1)
          /\ s_last.data = s_disk["val.pt"].records
    /\ (s_last.op = "dataset" /\ s_last.stage \notin {"train", "val", "test"}) =>
          /\ s_last.err = "ValueError"
          /\ s_last.io = <<>>
          /\ s_disk = s_last.before
    /\ s_last.op = "datamodule" =>
          /\ s_last.test = s_last.val
          /\ s_last.val = s_disk["val.pt"].records
          /\ s_last.train = s_disk["train.pt"].records

C4_Witness ==
    /\ s_last.op = "datamodule"
    /\ <<"save", "val.pt">> \in IoSet(s_last.io)
    /\ <<"save", "train.pt">> \in IoSet(s_last.io)
    /\ Len(s_last.test) > 0
    /\ s_last.train # s_last.val

(***************************************************************************)
(* Claims on FP2Mol_infos (checked under SpecInfos).                       *)
(***************************************************************************)
OwnPath(k) == <<"own", StatFile(k)>>

\* In the last construction statistic k was read back from the file an
\* earlier construction wrote, and the data module was not asked for it.
ReadBack(k) ==
    /\ k \notin last.called
    /\ last.before[OwnPath(k)] = [exists |-> TRUE, text |-> 1]
    /\ last.attrs[k] = [dtype |-> "float64", val |-> 1]
    /\ files[OwnPath(k)] = last.before[OwnPath(k)]

\* C3 as stated: a statistic that a construction computed and wrote is read
\* back, not recomputed, by a later construction with the same root and cfg
\* (any cfg.dataset.stats_dir), recompute_statistics false and meta None.
C3_Original ==
    (last.op = "infos" /\ ~last.recompute /\ ~last.meta.given) =>
        \A k \in StatKeys :
            <<k, last.stats_dir>> \in last.computed_before => ReadBack(k)

\* C3 as amended: the same for n_nodes and valency_distribution under any
\* cfg.dataset.stats_dir, and for node_types and edge_types when
\* cfg.dataset.stats_dir is unset or is the dataset's own stats directory.
C3_Cache ==
    (last.op = "infos" /\ ~last.recompute /\ ~last.meta.given) =>
        \A k \in StatKeys :
            (/\ <<k, last.stats_dir>> \in last.computed_before
             /\ (k \in {"n_nodes", "valency_distribution"}
                    \/ last.stats_dir \in {None, "own"}))
              => ReadBack(k)

C3_Witness ==
    /\ last.op = "infos" /\ ~last.recompute /\ ~last.meta.given
    /\ last.stats_dir = None
    /\ \A k \in StatKeys : <<k, None>> \in last.computed_before
    /\ last.called = {}
    /\ \A k \in StatKeys : last.attrs[k].val = 1

\* C6 as stated: a construction writes exactly the own-directory files of
\* the statistics it recomputed; a statistic is recomputed iff
\* recompute_statistics or its attribute is None after the load step; the
\* files of loaded statistics are unchanged; nothing under
\* cfg.dataset.stats_dir is written.
C6_Original ==
    last.op = "infos" =>
        /\ last.written = {OwnPath(k) : k \in last.called}
        /\ \A p \in StatPaths : p \notin last.written => files[p] = last.before[p]
        /\ \A k \in StatKeys :
              k \in last.called <=> (last.recompute \/ last.after_load[k] = NoneT)
        /\ \A k \in StatKeys :
              last.after_load[k] # NoneT =>
                files[MetaRead(last.stats_dir, k)]
                  = last.before[MetaRead(last.stats_dir, k)]
        /\ last.stats_dir # None =>
              \A p \in last.written : p[1] # last.stats_dir

\* C6 as amended: the files of loaded statistics are unchanged when
\* recompute_statistics is false, and nothing under cfg.dataset.stats_dir
\* is written unless it is the dataset's own stats directory.
C6_Frame ==
    last.op = "infos" =>
        /\ last.written = {OwnPath(k) : k \in last.called}
        /\ \A p \in StatPaths : p \notin last.written => files[p] = last.before[p]
        /\ \A k \in StatKeys :
              k \in last.called <=> (last.recompute \/ last.after_load[k] = NoneT)
        /\ ~last.recompute =>
              \A k \in StatKeys :
                last.after_load[k] # NoneT =>
                  files[MetaRead(last.stats_dir, k)]
                    = last.before[MetaRead(last.stats_dir, k)]
        /\ last.stats_dir \notin {None, "own"} =>
              \A p \in last.written : p[1] # last.stats_dir

C6_Witness ==
    /\ last.op = "infos" /\ ~last.recompute /\ last.stats_dir = "ext"
    /\ last.after_load["node_types"] = [dtype |-> "float64", val |-> 0]
    /\ last.after_load["n_nodes"] = NoneT
    /\ last.written = {OwnPath("n_nodes"), OwnPath("edge_types")}
    /\ last.before[OwnPath("node_types")].exists

\* C10: with recompute_statistics false, a statistic given in meta with a
\* non-None value becomes the attribute, is not recomputed, and its file is
\* not rewritten.
C10_MetaAdopted ==
    (last.op = "infos" /\ ~last.recompute /\ last.meta.given) =>
        \A k \in StatKeys :
            last.meta.d[k] # NoneT =>
                /\ last.attrs[k] = last.meta.d[k]
                /\ k \notin last.called
                /\ OwnPath(k) \notin last.written

====
